---------------------------- MODULE Spec2Model ----------------------------
(***************************************************************************)
(* A model of the numerical kinetics core of isoclump:                     *)
(*   - geologic_history (core_functions.py): input checks, calibration     *)
(*     lookup, dispatch on ed.model, assembly of the parameter vector and  *)
(*     covariance, forward evaluation, Jacobian, covariance propagation;   *)
(*   - _Jacobian (calc_funcs.py): central finite differences;              *)
(*   - _fSE15 (calc_funcs.py): backward-Euler integration of the paired    *)
(*     diffusion model, with _calc_R_stoch.                                *)
(* Numbers are exact rationals <<n, d>> (d > 0, lowest terms); the SE15    *)
(* integrator can also be run in a binary floating-point arithmetic with   *)
(* a short mantissa, every operation rounded to nearest.                   *)
(***************************************************************************)
EXTENDS Integers, Sequences, FiniteSets, TLC

VARIABLES
    pc,        \* control position of the routine being run
    args,      \* arguments of geologic_history
    err,       \* the exception that ended the run (NoErr while none)
    log,       \* the steps of geologic_history taken so far, in order
    calls,     \* every evaluation of a model function: which one, with what
    Deq, D0, D0_cov, p, pcov, D, lamfunc, J, D_std,   \* locals of geologic_history
    ret,       \* who called _Jacobian
    jf, jt, jp, jeps, ji, jJ,                         \* locals of _Jacobian
    se,        \* arguments and locals of _fSE15
    cf         \* a call of one of the matrix and ratio builders: its arguments
               \* and its outcome

ghvars == <<args, err, log, Deq, D0, D0_cov, p, pcov, D, lamfunc, J, D_std>>
jacvars == <<ret, jf, jt, jp, jeps, ji, jJ>>
vars == <<pc, args, err, log, calls, Deq, D0, D0_cov, p, pcov, D, lamfunc, J,
          D_std, ret, jf, jt, jp, jeps, ji, jJ, se, cf>>

---------------------------------------------------------------------------
(* Bounds of the model. *)

\* longest time array
MaxNt == 2
\* most parameters given to _Jacobian when it is run on its own
MaxNp == 2

---------------------------------------------------------------------------
(* Exact rational arithmetic. *)

RECURSIVE GCD(_, _)
GCD(a, b) ==
    IF b = 0 THEN a ELSE GCD(b, a % b)

Abs(n) ==
    IF n < 0 THEN -n ELSE n

RNorm(n, d) ==
    LET s == IF d < 0 THEN -1 ELSE 1
        g == GCD(Abs(n), Abs(d))
    IN  <<(s * n) \div g, (s * d) \div g>>

R(n) ==
    <<n, 1>>

RNeg(x) ==
    <<-x[1], x[2]>>

RAdd(x, y) ==
    LET g == GCD(x[2], y[2])
    IN  RNorm(x[1] * (y[2] \div g) + y[1] * (x[2] \div g), (x[2] \div g) * y[2])

RSub(x, y) ==
    RAdd(x, RNeg(y))

RMul(x, y) ==
    LET g1 == GCD(Abs(x[1]), y[2])
        g2 == GCD(Abs(y[1]), x[2])
    IN  <<(x[1] \div g1) * (y[1] \div g2), (x[2] \div g2) * (y[2] \div g1)>>

\* y # 0
RInv(y) ==
    IF y[1] < 0 THEN <<-y[2], -y[1]>> ELSE <<y[2], y[1]>>

RDiv(x, y) ==
    RMul(x, RInv(y))

RLt(x, y) ==
    x[1] * y[2] < y[1] * x[2]

RLe(x, y) ==
    x[1] * y[2] <= y[1] * x[2]

RECURSIVE RPow(_, _)
RPow(x, n) ==
    IF n = 0 THEN R(1) ELSE RMul(x, RPow(x, n - 1))

RECURSIVE RSum(_)
RSum(s) ==
    IF s = <<>> THEN R(0) ELSE RAdd(Head(s), RSum(Tail(s)))

RECURSIVE SqrtSearch(_, _, _)
SqrtSearch(n, lo, hi) ==
    IF lo > hi THEN -1
    ELSE LET mid == (lo + hi) \div 2
         IN  IF mid * mid = n THEN mid
             ELSE IF mid * mid < n THEN SqrtSearch(n, mid + 1, hi)
             ELSE SqrtSearch(n, lo, mid - 1)

\* the square root of a non-negative integer when it is one, else -1
ISqrt(n) ==
    SqrtSearch(n, 0, IF n < 46340 THEN n ELSE 46340)

\* np.sqrt: the root when it is rational; otherwise the value is kept by its
\* radicand (an irrational root), and a negative radicand gives nan
NpSqrt(v) ==
    IF v[1] < 0 THEN [kind |-> "nan", val |-> v]
    ELSE IF ISqrt(v[1]) >= 0 /\ ISqrt(v[2]) >= 0
         THEN [kind |-> "num", val |-> <<ISqrt(v[1]), ISqrt(v[2])>>]
         ELSE [kind |-> "root", val |-> v]

---------------------------------------------------------------------------
(* Arrays and matrices (a matrix is a sequence of rows). *)

Zeros(n) ==
    [i \in 1..n |-> R(0)]

ZeroMat(n, m) ==
    [i \in 1..n |-> Zeros(m)]

\* np.append(a, v) of a 1-d array and a scalar
AppendScalar(a, v) ==
    Append(a, v)

\* np.append(M, [row], 0)
AppendRow(M, row) ==
    Append(M, row)

\* np.append(M, col.reshape(-1,1), 1)
AppendCol(M, col) ==
    [i \in 1..Len(M) |-> Append(M[i], col[i])]

Transpose(M) ==
    IF M = <<>> THEN <<>>
    ELSE [c \in 1..Len(M[1]) |-> [r \in 1..Len(M) |-> M[r][c]]]

RECURSIVE Flatten(_)
Flatten(M) ==
    IF M = <<>> THEN <<>> ELSE Head(M) \o Flatten(Tail(M))

Dot(u, v) ==
    RSum([i \in 1..Len(u) |-> RMul(u[i], v[i])])

\* np.dot of two matrices
MatMul(A, B) ==
    LET Bt == Transpose(B)
    IN  [i \in 1..Len(A) |-> [j \in 1..Len(Bt) |-> Dot(A[i], Bt[j])]]

Diag(M) ==
    [i \in 1..Len(M) |-> M[i][i]]

\* M[:n, :n]
Slice(M, n) ==
    [i \in 1..n |-> SubSeq(M[i], 1, n)]

Column(M, c) ==
    [r \in 1..Len(M) |-> M[r][c]]

SetCol(M, c, col) ==
    [r \in 1..Len(M) |-> [M[r] EXCEPT ![c] = col[r]]]

IsSymmetric(M) ==
    \A i \in 1..Len(M) : \A j \in 1..Len(M) : M[i][j] = M[j][i]

---------------------------------------------------------------------------
(* Python values of the calibration and ref_frame arguments. *)

PyStr(s) ==
    [ty |-> "str", v |-> s, n |-> 0]

PyInt5 ==
    [ty |-> "int", v |-> "5", n |-> 0]

PyNone ==
    [ty |-> "NoneType", v |-> "None", n |-> 0]

PyEmptyTuple ==
    [ty |-> "tuple", v |-> "()", n |-> 0]

\* x in L, for a list L of strings: true only of an equal string
PyIn(x, L) ==
    x.ty = "str" /\ x.v \in L

\* the conversion each message's format string holds
FmtConv(fmt) ==
    IF fmt = "unexpected length of T array" THEN "n" ELSE "s"

\* fmt % arg: an unsupported conversion raises ValueError, a tuple that does
\* not hold exactly one value raises TypeError, otherwise the text is built
PyFormat(fmt, arg) ==
    IF FmtConv(fmt) = "n"
    THEN [ok |-> FALSE, exc |-> "ValueError", text |-> "unsupported format character"]
    ELSE IF arg.ty = "tuple" /\ arg.n # 1
    THEN [ok |-> FALSE, exc |-> "TypeError", text |-> "not enough arguments for format string"]
    ELSE [ok |-> TRUE, exc |-> "none", text |-> fmt]

\* raise exc(fmt % arg), raised by the check named
Raise(exc, fmt, arg, check) ==
    LET m == PyFormat(fmt, arg)
    IN  [type |-> IF m.ok THEN exc ELSE m.exc, check |-> check, msg |-> m.text]

NoErr ==
    [type |-> "none", check |-> "none", msg |-> "none"]

Calibrations ==
    {"PH12", "SE15", "Bea17"}

RefFrames ==
    {"Ghosh25", "Ghosh90", "CDES25", "CDES90"}

ModelTypes ==
    {"Hea14", "HH20", "PH12", "SE15"}

---------------------------------------------------------------------------
(* The collaborators geologic_history calls that are not part of the       *)
(* sources: the calibration table and the four forward models _gh*.        *)

CalCoef(cal, ref) ==
    (CASE cal = "PH12" -> 1 [] cal = "SE15" -> 2 [] OTHER -> 3)
    + (CASE ref = "Ghosh25" -> 10 [] ref = "Ghosh90" -> 20
         [] ref = "CDES25" -> 30 [] OTHER -> 40)

\* caleqs[calibration][ref_frame](T): one equilibrium value per temperature
CalEq(cal, ref, T) ==
    [j \in 1..Len(T) |-> RDiv(RMul(R(CalCoef(cal, ref)), T[j]), R(100))]

\* nlam of _ghHH20 when the caller passes none
GhHH20DefaultNlam ==
    400

FnWeight(fn) ==
    CASE fn = "_ghHea14" -> 1 [] fn = "_ghHH20" -> 2
      [] fn = "_ghPH12" -> 3 [] OTHER -> 5

\* a forward model _gh*(t, *p, Deq, T, Tref[, nlam]): a curve of len(t)
\* values that depends on the model, on every parameter, on the context
\* and, for _ghHH20, on the number of lambda nodes
GhForward(fn, nlam, t, pv, Deq_, T_, Tref) ==
    LET N == IF fn = "_ghHH20"
             THEN (IF nlam = <<>> THEN GhHH20DefaultNlam ELSE nlam[1])
             ELSE 1
        S == RSum([i \in 1..Len(pv) |-> RMul(R(i), pv[i])])
    IN  [j \in 1..Len(t) |->
            RAdd(RAdd(Deq_[j], RSub(T_[j], Tref)),
                 RAdd(R(FnWeight(fn) * N), RMul(S, RAdd(t[j], R(1)))))]

---------------------------------------------------------------------------
(* Model functions handed to _Jacobian. *)

\* lamfunc bound before the if/elif chain
NoFM ==
    [kind |-> "plain", fn |-> "poly", nlam |-> <<>>, Deq |-> <<>>,
     T |-> <<>>, Tref |-> R(0)]

\* lamfunc before any branch has assigned it
NoF ==
    [kind |-> "unbound", fn |-> "none", nlam |-> <<>>, Deq |-> <<>>,
     T |-> <<>>, Tref |-> R(0)]

PlainF(name) ==
    [kind |-> "plain", fn |-> name, nlam |-> <<>>, Deq |-> <<>>,
     T |-> <<>>, Tref |-> R(0)]

\* lambda t, *params : fn(t, *params, Deq, T, Tref[, nlam = nlam])
Closure(fn, nlam, Deq_, T_, Tref) ==
    [kind |-> "closure", fn |-> fn, nlam |-> nlam, Deq |-> Deq_,
     T |-> T_, Tref |-> Tref]

\* f(t, p) = sum_i p_i * t^i, i = 0..len(p)-1
Poly(t, pv) ==
    [j \in 1..Len(t) |-> RSum([i \in 1..Len(pv) |-> RMul(pv[i], RPow(t[j], i - 1))])]

\* f(t, p) = sum_i p_i^2 * (t + i): not linear in p
Quad(t, pv) ==
    [j \in 1..Len(t) |->
        RSum([i \in 1..Len(pv) |-> RMul(RMul(pv[i], pv[i]), RAdd(t[j], R(i)))])]

\* f(t, *pv)
EvalF(f, t, pv) ==
    IF f.kind = "closure"
    THEN GhForward(f.fn, f.nlam, t, pv, f.Deq, f.T, f.Tref)
    ELSE IF f.fn = "poly" THEN Poly(t, pv) ELSE Quad(t, pv)

CallRec(f, pv, site) ==
    [fn |-> f.fn, nlam |-> f.nlam, p |-> pv, site |-> site]

---------------------------------------------------------------------------
(* geologic_history: its inputs. *)

\* number of lambda nodes when the caller passes none
NlamDefault == 400

\* eps of _Jacobian when the caller passes none: 1e-6
EpsDefault ==
    <<1, 1000000>>

TimeArr(n) ==
    [i \in 1..n |-> R(i - 1)]

TempArr(n) ==
    [i \in 1..n |-> R(300 + 100 * (i - 1))]

\* number of rate constants a descriptor of each model type carries, each
\* with an activation energy and a reference ln(k): the columns of Eparams
NRates(model) ==
    CASE model = "Hea14" -> 3 [] model = "HH20" -> 2
      [] model = "PH12" -> 2 [] OTHER -> 3

\* ed.Eparams: row 1 the activation energies, row 2 the reference ln(k)
EparamsOf(model) ==
    <<[c \in 1..NRates(model) |-> R(2 * c - 1)],
      [c \in 1..NRates(model) |-> R(2 * c)]>>

\* covariance matrices, symmetric positive semi-definite
CovZero(n) ==
    ZeroMat(n, n)

CovDiag(n) ==
    [i \in 1..n |-> [j \in 1..n |-> IF i = j THEN R(i) ELSE R(0)]]

CovFull(n) ==
    [i \in 1..n |-> [j \in 1..n |-> R(IF i < j THEN i ELSE j)]]

\* the kinetic-model descriptors: the four model types and an unknown one
EDs ==
    UNION {{[model |-> m, Tref |-> R(300), Eparams |-> EparamsOf(m),
             Eparams_cov |-> c] :
               c \in {CovZero(2 * NRates(m)), CovDiag(2 * NRates(m)),
                      CovFull(2 * NRates(m))}} :
            m \in ModelTypes \cup {"XX00"}}

CalArgs ==
    {PyStr(s) : s \in Calibrations \cup {"bogus"}} \cup {PyInt5, PyNone, PyEmptyTuple}

RefArgs ==
    {PyStr(s) : s \in RefFrames \cup {"bogus"}} \cup {PyInt5, PyNone}

GHArgs ==
    [t : {TimeArr(n) : n \in 1..MaxNt},
     T : {TempArr(n) : n \in 1..MaxNt},
     ed : EDs,
     d0 : {<<<<1, 2>>, R(2), R(-3)>>},
     d0_std : {<<R(0), R(0), R(0)>>, <<R(0), R(1), R(1)>>, <<<<1, 2>>, R(0), R(0)>>},
     calibration : CalArgs,
     ref_frame : RefArgs,
     nlam : {NlamDefault, 4},
     eps : {EpsDefault}]

---------------------------------------------------------------------------
(* geologic_history: the branch taken for each model type. *)

\* the fitted parameters, in the order of the branch's comment
BranchP(ed) ==
    IF ed.model = "PH12" THEN Column(ed.Eparams, 1)
    ELSE Flatten(Transpose(ed.Eparams))

BranchCov(ed) ==
    IF ed.model = "PH12" THEN Slice(ed.Eparams_cov, 2) ELSE ed.Eparams_cov

\* p = np.append(p, D0)
AugmentP(pv, d0val) ==
    AppendScalar(pv, d0val)

\* an augmentation that puts the variance of D0 at the top of the new column
AugmentCovM(cov, d0cov) ==
    LET npt == Len(cov)
    IN  AppendCol(AppendRow(cov, Zeros(npt)), <<d0cov>> \o Zeros(npt))

\* pcov = np.append(pcov, [np.zeros(npt)], 0)
\* pcov = np.append(pcov, np.append(np.zeros(npt), D0_cov).reshape(-1,1), 1)
AugmentCov(cov, d0cov) ==
    LET npt == Len(cov)
    IN  AppendCol(AppendRow(cov, Zeros(npt)), AppendScalar(Zeros(npt), d0cov))

\* the function called to compute D
ForwardFn(model) ==
    CASE model = "Hea14" -> "_ghHea14"
      [] model = "HH20" -> "_ghHH20"
      [] model = "PH12" -> "_ghPH12"
      [] model = "SE15" -> "_ghHH20"

\* the function the lambda handed to _Jacobian calls
ClosureFn(model) ==
    CASE model = "Hea14" -> "_ghHea14"
      [] model = "HH20" -> "_ghHH20"
      [] model = "PH12" -> "_ghPH12"
      [] model = "SE15" -> "_ghHH20"

\* nlam as passed in the call that computes D: never passed
ForwardNlam(model, nlam) ==
    <<>>

\* nlam as passed by the lambda: only the HH20 lambda passes it
ClosureNlam(model, nlam) ==
    IF model = "HH20" THEN <<nlam>> ELSE <<>>

\* a variance taken from the uncertainty of d13C instead of that of D47
D0CovM(d0_std) ==
    RMul(d0_std[2], d0_std[2])

\* D0_cov = d0_std[0]**2
D0Cov(d0_std) ==
    RMul(d0_std[1], d0_std[1])

---------------------------------------------------------------------------
(* geologic_history: the steps. *)

\* no builder is being called
NoCall ==
    [fn |-> "none"]

NoSE ==
    [pc |-> "idle", args |-> <<>>, Rs |-> <<>>, A |-> <<>>, B |-> <<>>,
     x |-> <<>>, i |-> 0, updates |-> <<>>, D |-> <<>>]

\* an order in which the calibration equation is evaluated before ref_frame
\* is checked
GHOrderM ==
    <<"gh_len", "gh_cal", "gh_deq", "gh_ref", "gh_model", "gh_jac">>

\* the statements of geologic_history in the order they are written
GHOrder ==
    <<"gh_len", "gh_cal", "gh_ref", "gh_deq", "gh_model", "gh_jac">>

\* the statement that follows statement s
After(s) ==
    LET i == CHOOSE k \in 1..Len(GHOrder) : GHOrder[k] = s
    IN  GHOrder[i + 1]

\* a length check that only catches a T longer than t
LenMismatchM(t, T) ==
    Len(T) > Len(t)

\* len(T) != len(t)
LenMismatch(t, T) ==
    Len(T) # Len(t)

InitGH ==
    /\ pc = "gh_len"
    /\ args \in GHArgs
    /\ err = NoErr
    /\ log = <<>>
    /\ calls = <<>>
    /\ Deq = <<>> /\ D0 = R(0) /\ D0_cov = R(0)
    /\ p = <<>> /\ pcov = <<>> /\ D = <<>> /\ lamfunc = NoF
    /\ J = <<>> /\ D_std = <<>>
    /\ ret = "gh"
    /\ jf = NoF /\ jt = <<>> /\ jp = <<>> /\ jeps = R(0) /\ ji = 0 /\ jJ = <<>>
    /\ se = NoSE
    /\ cf = NoCall

\* if len(T) != len(t): raise ValueError(...)
GH_CheckLen ==
    /\ pc = "gh_len"
    /\ log' = Append(log, "check_len")
    /\ IF LenMismatch(args.t, args.T)
       THEN /\ err' = Raise("ValueError", "unexpected length of T array",
                            [ty |-> "int", v |-> "len(T)", n |-> 0], "len")
            /\ pc' = "raised"
       ELSE /\ pc' = After("gh_len")
            /\ UNCHANGED err
    /\ UNCHANGED <<args, calls, Deq, D0, D0_cov, p, pcov, D, lamfunc, J, D_std,
                   se, cf>>
    /\ UNCHANGED jacvars

\* if calibration not in [...]: raise ValueError(...)
\* elif not isinstance(calibration, str): raise TypeError(...)
GH_CheckCalibration ==
    /\ pc = "gh_cal"
    /\ log' = Append(log, "check_calibration")
    /\ IF ~PyIn(args.calibration, Calibrations)
       THEN /\ err' = Raise("ValueError", "unexpected calibration",
                            args.calibration, "calibration")
            /\ pc' = "raised"
       ELSE IF args.calibration.ty # "str"
       THEN /\ err' = Raise("TypeError", "unexpected calibration of type",
                            PyStr(args.calibration.ty), "calibration")
            /\ pc' = "raised"
       ELSE /\ pc' = After("gh_cal")
            /\ UNCHANGED err
    /\ UNCHANGED <<args, calls, Deq, D0, D0_cov, p, pcov, D, lamfunc, J, D_std,
                   se, cf>>
    /\ UNCHANGED jacvars

\* if ref_frame not in [...]: raise ValueError(...)
\* elif not isinstance(ref_frame, str): raise TypeError(...)
GH_CheckRefFrame ==
    /\ pc = "gh_ref"
    /\ log' = Append(log, "check_ref_frame")
    /\ IF ~PyIn(args.ref_frame, RefFrames)
       THEN /\ err' = Raise("ValueError", "unexpected ref_frame",
                            args.ref_frame, "ref_frame")
            /\ pc' = "raised"
       ELSE IF args.ref_frame.ty # "str"
       THEN /\ err' = Raise("TypeError", "unexpected calibration of type",
                            PyStr(args.ref_frame.ty), "ref_frame")
            /\ pc' = "raised"
       ELSE /\ pc' = After("gh_ref")
            /\ UNCHANGED err
    /\ UNCHANGED <<args, calls, Deq, D0, D0_cov, p, pcov, D, lamfunc, J, D_std,
                   se, cf>>
    /\ UNCHANGED jacvars

\* Deq = caleqs[calibration][ref_frame](T); D0 = d0[0]; D0_cov = d0_std[0]**2
GH_Deq ==
    /\ pc = "gh_deq"
    /\ log' = Append(log, "calibration_equation")
    /\ Deq' = CalEq(args.calibration.v, args.ref_frame.v, args.T)
    /\ D0' = args.d0[1]
    /\ D0_cov' = D0Cov(args.d0_std)
    /\ pc' = After("gh_deq")
    /\ UNCHANGED <<args, err, calls, p, pcov, D, lamfunc, J, D_std, se, cf>>
    /\ UNCHANGED jacvars

\* the if/elif chain on ed.model: p, pcov, D and lamfunc of the branch taken;
\* no branch is taken for any other model type
GH_Model ==
    /\ pc = "gh_model"
    /\ IF args.ed.model \in ModelTypes
       THEN LET m == args.ed.model
                pa == AugmentP(BranchP(args.ed), D0)
                fwd == Closure(ForwardFn(m), ForwardNlam(m, args.nlam), Deq,
                               args.T, args.ed.Tref)
            IN  /\ p' = pa
                /\ pcov' = AugmentCov(BranchCov(args.ed), D0_cov)
                /\ D' = EvalF(fwd, args.t, pa)
                /\ calls' = Append(calls, CallRec(fwd, pa, "D"))
                /\ lamfunc' = Closure(ClosureFn(m), ClosureNlam(m, args.nlam),
                                      Deq, args.T, args.ed.Tref)
                /\ log' = Append(log, "forward_model")
       ELSE UNCHANGED <<p, pcov, D, calls, lamfunc, log>>
    /\ pc' = After("gh_model")
    /\ UNCHANGED <<args, err, Deq, D0, D0_cov, J, D_std, se, cf>>
    /\ UNCHANGED jacvars

\* J = _Jacobian(lamfunc, t, p, **kwargs): the call; lamfunc and p are not
\* bound when no branch was taken
GH_CallJacobian ==
    /\ pc = "gh_jac"
    /\ IF lamfunc.kind = "unbound"
       THEN /\ err' = [type |-> "UnboundLocalError", check |-> "none",
                       msg |-> "local variable 'lamfunc' referenced before assignment"]
            /\ pc' = "raised"
            /\ UNCHANGED <<log, jf, jt, jp, jeps, ji, jJ>>
       ELSE /\ log' = Append(log, "jacobian")
            /\ jf' = lamfunc /\ jt' = args.t /\ jp' = p /\ jeps' = args.eps
            /\ ji' = 0
            /\ jJ' = ZeroMat(Len(args.t), Len(p))
            /\ pc' = "jac_loop"
            /\ UNCHANGED err
    /\ UNCHANGED <<args, calls, Deq, D0, D0_cov, p, pcov, D, lamfunc, J, D_std,
                   ret, se, cf>>

\* Dcov = np.dot(J, np.dot(pcov, J.T))
PropagateCov(Jm, cov) ==
    MatMul(Jm, MatMul(cov, Transpose(Jm)))

\* D_std = np.sqrt(np.diag(Dcov))
StdOf(Dcov) ==
    [j \in 1..Len(Dcov) |-> NpSqrt(Diag(Dcov)[j])]

\* Dcov, D_std and return D, D_std
GH_Propagate ==
    /\ pc = "gh_prop"
    /\ D_std' = StdOf(PropagateCov(J, pcov))
    /\ log' = Append(log, "propagate")
    /\ pc' = "done"
    /\ UNCHANGED <<args, err, calls, Deq, D0, D0_cov, p, pcov, D, lamfunc, J, se, cf>>
    /\ UNCHANGED jacvars

---------------------------------------------------------------------------
(* _Jacobian. *)

\* pp = p; pp[i] += delta: no copy, the caller's array is changed in place
CopyPerturbM(pv, k, delta) ==
    [caller |-> [pv EXCEPT ![k] = RAdd(@, delta)],
     copy |-> [pv EXCEPT ![k] = RAdd(@, delta)]]

\* pp = p.copy(); pp[i] += delta: the array p refers to afterwards, and
\* the new array pp
CopyPerturb(pv, k, delta) ==
    [caller |-> pv, copy |-> [pv EXCEPT ![k] = RAdd(@, delta)]]

\* a difference quotient divided by eps instead of 2*eps
DiffColumnM(f, t, pp, pm, eps) ==
    LET fp == EvalF(f, t, pp)
        fm == EvalF(f, t, pm)
    IN  [j \in 1..Len(t) |-> RDiv(RSub(fp[j], fm[j]), eps)]

\* (f(t, *pp) - f(t, *pm)) / (2*eps)
DiffColumn(f, t, pp, pm, eps) ==
    LET fp == EvalF(f, t, pp)
        fm == EvalF(f, t, pm)
    IN  [j \in 1..Len(t) |-> RDiv(RSub(fp[j], fm[j]), RMul(R(2), eps))]

\* one pass of the loop over the parameters
Jac_Step ==
    /\ pc = "jac_loop"
    /\ ji < Len(jp)
    /\ LET k == ji + 1
           plus == CopyPerturb(jp, k, jeps)
           minus == CopyPerturb(plus.caller, k, RNeg(jeps))
           pp == plus.copy
           pm == minus.copy
       IN  /\ jJ' = SetCol(jJ, k, DiffColumn(jf, jt, pp, pm, jeps))
           /\ calls' = calls \o <<CallRec(jf, pp, "J"), CallRec(jf, pm, "J")>>
           /\ jp' = minus.caller
    /\ ji' = ji + 1
    /\ UNCHANGED <<pc, ret, jf, jt, jeps, se, cf>>
    /\ UNCHANGED ghvars

\* return J
Jac_Return ==
    /\ pc = "jac_loop"
    /\ ji = Len(jp)
    /\ IF ret = "gh"
       THEN /\ J' = jJ
            /\ pc' = "gh_prop"
       ELSE /\ pc' = "jac_done"
            /\ UNCHANGED J
    /\ UNCHANGED <<args, err, log, calls, Deq, D0, D0_cov, p, pcov, D, lamfunc,
                   D_std, se, cf>>
    /\ UNCHANGED jacvars

---------------------------------------------------------------------------
(* _Jacobian run on its own. *)

IdleArgs ==
    [t |-> <<>>, T |-> <<>>, ed |-> [model |-> "none"], d0 |-> <<>>,
     d0_std |-> <<>>, calibration |-> PyNone, ref_frame |-> PyNone,
     nlam |-> NlamDefault, eps |-> EpsDefault]

PVals ==
    {R(0), R(-1), <<3, 2>>}

JacPs ==
    UNION {[1..n -> PVals] : n \in 1..MaxNp}

JacTs ==
    {TimeArr(n) : n \in 1..MaxNt} \cup {<<R(2)>>, <<<<-1, 2>>, R(3)>>}

\* the function differentiated and the step: the step 1e-6 only with the
\* function linear in p
JacCases ==
    ({PlainF("poly")} \X {EpsDefault, <<1, 2>>, R(2)})
    \cup ({PlainF("quad")} \X {<<1, 2>>, R(2)})

InitJac ==
    /\ pc = "jac_loop"
    /\ ret = "top"
    /\ \E c \in JacCases : jf = c[1] /\ jeps = c[2]
    /\ jt \in JacTs
    /\ jp \in JacPs
    /\ p = jp
    /\ ji = 0
    /\ jJ = ZeroMat(Len(jt), Len(jp))
    /\ calls = <<>>
    /\ args = IdleArgs
    /\ err = NoErr
    /\ log = <<>>
    /\ Deq = <<>> /\ D0 = R(0) /\ D0_cov = R(0)
    /\ pcov = <<>> /\ D = <<>> /\ lamfunc = NoF
    /\ J = <<>> /\ D_std = <<>>
    /\ se = NoSE
    /\ cf = NoCall

NextJac ==
    \/ Jac_Step
    \/ Jac_Return

SpecJac == InitJac /\ [][NextJac]_vars

---------------------------------------------------------------------------
(* Floating-point arithmetic: binary, MantBits bits of mantissa, round to   *)
(* nearest, ties to even; "exact" is arithmetic over the rationals.         *)

\* bits of mantissa of the floating-point arithmetic
MantBits == 8

RECURSIVE Pow2(_)
Pow2(k) ==
    IF k = 0 THEN 1 ELSE 2 * Pow2(k - 1)

\* a / d = (a' / d') * 2^e' with a' / d' in [2^(MantBits-1), 2^MantBits)
RECURSIVE FloatNorm(_, _, _)
FloatNorm(a, d, e) ==
    IF a \div d < Pow2(MantBits - 1)
    THEN IF d % 2 = 0 THEN FloatNorm(a, d \div 2, e - 1)
         ELSE FloatNorm(2 * a, d, e - 1)
    ELSE IF a \div d >= Pow2(MantBits)
    THEN IF a % 2 = 0 THEN FloatNorm(a \div 2, d, e + 1)
         ELSE FloatNorm(a, 2 * d, e + 1)
    ELSE <<a, d, e>>

\* q + r/d rounded to an integer, ties to even
RoundMant(q, r, d) ==
    IF 2 * r > d \/ (2 * r = d /\ q % 2 = 1) THEN q + 1 ELSE q

\* m * 2^e
Scale(m, e) ==
    IF e >= 0 THEN <<m * Pow2(e), 1>> ELSE RNorm(m, Pow2(-e))

\* the float of sign sg nearest to f[1]/f[2] * 2^f[3]
RndNorm(sg, f) ==
    Scale(sg * RoundMant(f[1] \div f[2], f[1] % f[2], f[2]), f[3])

\* the float nearest to x
Rnd(x) ==
    IF x[1] = 0 THEN x
    ELSE RndNorm(IF x[1] < 0 THEN -1 ELSE 1, FloatNorm(Abs(x[1]), x[2], 0))

\* the result of an operation in arithmetic ar
Fl(ar, x) ==
    IF ar = "float" THEN Rnd(x) ELSE x

FAdd(ar, x, y) == Fl(ar, RAdd(x, y))
FSub(ar, x, y) == Fl(ar, RSub(x, y))
FMul(ar, x, y) == Fl(ar, RMul(x, y))
FDiv(ar, x, y) == Fl(ar, RDiv(x, y))

\* the value of an operation that has no real result
NaN ==
    <<0, 0>>

IsNaN(x) ==
    x[2] = 0

\* x ** lam of a numpy float for lam = 1/2: nan for a negative x, the root
\* for the square of a rational; no other power is evaluated
FPow(ar, x, lam) ==
    IF x[1] < 0 THEN NaN
    ELSE IF lam = <<1, 2>> /\ NpSqrt(x).kind = "num" THEN Fl(ar, NpSqrt(x).val)
    ELSE CHOOSE r \in {} : TRUE

\* ln(q), the argument of np.exp
Ln(q) ==
    [ln |-> q]

\* np.exp of ln(q)
NpExp(ar, l) ==
    Fl(ar, l.ln)

RECURSIVE FSum(_, _)
FSum(ar, s) ==
    IF s = <<>> THEN R(0) ELSE FAdd(ar, Head(s), FSum(ar, Tail(s)))

\* np.mean
NpMean(ar, s) ==
    FDiv(ar, FSum(ar, s), R(Len(s)))

\* back substitution for one column: U = <<r1, <<0, u22>>>>, L y = e solved
\* to <<y1, y2>>
LUBack(ar, r1, u22, y1, x2) ==
    <<FDiv(ar, FSub(ar, y1, FMul(ar, r1[2], x2)), r1[1]), x2>>

\* one column of the inverse: forward then back substitution of <<y1, e2>>
LUColumn(ar, r1, l, u22, y1, e2) ==
    LUBack(ar, r1, u22, y1, FDiv(ar, FSub(ar, e2, FMul(ar, l, y1)), u22))

FromColumns(c1, c2) ==
    <<<<c1[1], c2[1]>>, <<c1[2], c2[2]>>>>

\* the inverse from the factors; a zero second pivot is a singular matrix
LUSolve(ar, swap, r1, l, u22) ==
    IF u22[1] = 0 THEN [ok |-> FALSE, inv |-> <<>>]
    ELSE [ok |-> TRUE,
          inv |-> FromColumns(
              LUColumn(ar, r1, l, u22, IF swap THEN R(0) ELSE R(1),
                                       IF swap THEN R(1) ELSE R(0)),
              LUColumn(ar, r1, l, u22, IF swap THEN R(1) ELSE R(0),
                                       IF swap THEN R(0) ELSE R(1)))]

\* elimination of the second row by the multiplier l
LUEliminate(ar, swap, r1, r2, l) ==
    LUSolve(ar, swap, r1, l, FSub(ar, r2[2], FMul(ar, l, r1[2])))

\* the factorisation with pivot row r1; a zero first pivot is a singular matrix
LUFactor(ar, swap, r1, r2) ==
    IF r1[1][1] = 0 THEN [ok |-> FALSE, inv |-> <<>>]
    ELSE LUEliminate(ar, swap, r1, r2, FDiv(ar, r2[1], r1[1]))

\* numpy.linalg.inv of a 2x2 matrix: LU with partial pivoting, solved for
\* the columns of the identity
Inv2(ar, M) ==
    IF RLt(<<Abs(M[1][1][1]), M[1][1][2]>>, <<Abs(M[2][1][1]), M[2][1][2]>>)
    THEN LUFactor(ar, TRUE, M[2], M[1])
    ELSE LUFactor(ar, FALSE, M[1], M[2])

\* np.dot of a 2x2 matrix and a 2-vector
Dot2(ar, M, v) ==
    <<FAdd(ar, FMul(ar, M[1][1], v[1]), FMul(ar, M[1][2], v[2])),
      FAdd(ar, FMul(ar, M[2][1], v[1]), FMul(ar, M[2][2], v[2]))>>

---------------------------------------------------------------------------
(* _calc_R_stoch and the registry of isotope parameters. *)

\* d47_isoparams: name -> <<R13_vpdb, R18_vpdb, R17_vpdb, lam17>>
IsoParamNames ==
    {"Brand", "Gonfiantini"}

IsoParams(name) ==
    IF name = "Brand" THEN <<<<1, 2>>, <<1, 4>>, <<1, 8>>, <<1, 2>>>>
    ELSE <<<<1, 2>>, <<1, 4>>, <<1, 16>>, <<1, 2>>>>

\* lines 186-200: the isotopologue fractions and their ratios to f44
StochRatios(ar, f12, f13, f16, f17, f18, f44) ==
    <<FDiv(ar, FAdd(ar, FMul(ar, FMul(ar, f13, f16), f16),
                        FMul(ar, FMul(ar, FMul(ar, R(2), f12), f17), f16)), f44),
      FDiv(ar, FAdd(ar, FAdd(ar, FMul(ar, FMul(ar, FMul(ar, R(2), f12), f16), f18),
                                 FMul(ar, FMul(ar, FMul(ar, R(2), f13), f17), f16)),
                        FMul(ar, FMul(ar, f12, f17), f17)), f44),
      FDiv(ar, FAdd(ar, FAdd(ar, FMul(ar, FMul(ar, FMul(ar, R(2), f13), f16), f18),
                                 FMul(ar, FMul(ar, FMul(ar, R(2), f12), f17), f18)),
                        FMul(ar, FMul(ar, f13, f17), f17)), f44)>>

\* the fractions f12, f13, f16, f17, f18 with the ratios built from them
StochPack(ar, f12, f13, f16, f17, f18) ==
    [f |-> <<f12, f13, f16, f17, f18>>,
     R |-> StochRatios(ar, f12, f13, f16, f17, f18,
                       FMul(ar, FMul(ar, f12, f16), f16))]

\* the fractions with f13 left as the ratio R13
StochFractionsM(ar, R13, R17, R18, f12, f16) ==
    StochPack(ar, f12, R13, f16, FMul(ar, R17, f16), FMul(ar, R18, f16))

\* lines 176-186: the fractional abundances of the isotopes, and f44
StochFractions(ar, R13, R17, R18, f12, f16) ==
    StochPack(ar, f12, FMul(ar, R13, f12), f16, FMul(ar, R17, f16),
              FMul(ar, R18, f16))

\* a nan R17 makes f16, f17, f18 and every ratio nan
StochNaN(ar, R13, f12) ==
    [f |-> <<f12, FMul(ar, R13, f12), NaN, NaN, NaN>>, R |-> <<NaN, NaN, NaN>>]

\* lines 176 and 180: f12 and f16
StochAbundances(ar, R13, R17, R18) ==
    IF IsNaN(R17) THEN StochNaN(ar, R13, FDiv(ar, R(1), FAdd(ar, R(1), R13)))
    ELSE StochFractions(ar, R13, R17, R18, FDiv(ar, R(1), FAdd(ar, R(1), R13)),
                        FDiv(ar, R(1), FAdd(ar, FAdd(ar, R(1), R17), R18)))

\* R17_vpdb times the power pw
StochPow(ar, R13, R18, reg, pw) ==
    StochAbundances(ar, R13, IF IsNaN(pw) THEN NaN ELSE FMul(ar, reg[3], pw), R18)

\* line 173: R17 = R17_vpdb*(R18/R18_vpdb)**lam17
StochR17(ar, R13, R18, reg) ==
    StochPow(ar, R13, R18, reg, FPow(ar, FDiv(ar, R18, reg[2]), reg[4]))

\* the delta d of a ratio whose standard is Rstd, as the ratio
DeltaToR(ar, d, Rstd) ==
    FMul(ar, FAdd(ar, FDiv(ar, d, R(1000)), R(1)), Rstd)

\* the fractions and ratios of _calc_R_stoch for a registered name
StochAll(ar, d13C, d18O, iso_params) ==
    StochR17(ar, DeltaToR(ar, d13C, IsoParams(iso_params)[1]),
             DeltaToR(ar, d18O, IsoParams(iso_params)[2]), IsoParams(iso_params))

\* <<R45_stoch, R46_stoch, R47_stoch>> for a registered name
calc_R_stoch(ar, d13C, d18O, iso_params) ==
    StochAll(ar, d13C, d18O, iso_params).R

---------------------------------------------------------------------------
(* _fSE15: its inputs. *)

\* most backward-Euler steps of one integration
MaxSteps == 2

\* time arrays with growing steps: 0, 1, 3, 6, ...
SETimes(n) ==
    [i \in 1..n |-> R((i * (i - 1)) \div 2)]

\* heating experiments: he.dex holds rows <<D47, d13C, d18O>>
HeBrand ==
    [dex |-> <<<<<<1, 2>>, R(0), R(0)>>, <<<<1, 4>>, R(0), R(0)>>>>,
     iso_params |-> "Brand"]

HeUnregistered ==
    [dex |-> <<<<<<1, 2>>, R(0), R(0)>>>>, iso_params |-> "Craig"]

SEArgs ==
    [t : {SETimes(n) : n \in 1..(MaxSteps + 1)}
             \cup {<<R(0), R(-1)>>, <<R(0), R(0)>>},
     lnk1f : {Ln(R(1)), Ln(R(3))},
     lnkds : {Ln(<<128, 55>>), Ln(<<64, 11>>)},
     lnp0peq : {Ln(R(1)), Ln(R(2))},
     D0 : {<<1, 2>>, R(500)},
     Deq : {R(0), R(500), R(-1000)},
     Dppeq : {R(1), R(2)},
     he : {HeBrand, HeUnregistered},
     arith : {"exact", "float"}]

\* a rate k1f so large that 1 + dt*k1f is beyond the precision of the
\* floating point format, with Dp47eq = Dppeq, so that b = a
SEFastArgs ==
    [t : {<<R(0), R(1)>>},
     lnk1f : {Ln(R(Pow2(MantBits + 2)))},
     lnkds : {Ln(<<128, 55>>), Ln(<<64, 11>>)},
     lnp0peq : {Ln(R(1)), Ln(R(2))},
     D0 : {<<1, 2>>, R(500)},
     Deq : {R(0)},
     Dppeq : {R(1)},
     he : {HeBrand},
     arith : {"float"}]

---------------------------------------------------------------------------
(* _fSE15: the steps. *)

\* D0/1000 + 1
ToPrime(ar, Dv) ==
    FAdd(ar, FDiv(ar, Dv, R(1000)), R(1))

\* 1000*(Dp47 - 1)
FromPrime(ar, Dp) ==
    FMul(ar, R(1000), FSub(ar, Dp, R(1)))

\* lines 499-504: the stochastic ratios at the mean composition of he.dex
SEStoch(a_) ==
    calc_R_stoch(a_.arith, NpMean(a_.arith, Column(a_.he.dex, 2)),
                 NpMean(a_.arith, Column(a_.he.dex, 3)), a_.he.iso_params)

\* lines 507-536: the rate constants, the matrices A and B and the array x
SESetup(a_, Rs) ==
    LET ar == a_.arith
        Rpeq == FMul(ar, a_.Dppeq, Rs[3])
        kds == NpExp(ar, a_.lnkds)
        kdp == FDiv(ar, FMul(ar, kds, FMul(ar, FSub(ar, Rs[1], Rpeq),
                                               FSub(ar, Rs[2], Rpeq))), Rpeq)
        p0peq == NpExp(ar, a_.lnp0peq)
        k1f == NpExp(ar, a_.lnk1f)
        Dpp0 == FMul(ar, p0peq, a_.Dppeq)
        Dp470 == ToPrime(ar, a_.D0)
        Dp47eq == ToPrime(ar, a_.Deq)
        a == k1f
        b == FDiv(ar, FMul(ar, k1f, Dp47eq), a_.Dppeq)
        c == kdp
        d == FMul(ar, kdp, a_.Dppeq)
        nt == Len(a_.t)
    IN  [A |-> <<<<RNeg(a), b>>, <<a, RNeg(FAdd(ar, b, c))>>>>,
         B |-> <<R(0), d>>,
         x |-> [i \in 1..nt |-> IF i = 1 THEN <<Dp470, Dpp0>> ELSE <<R(0), R(0)>>]]

\* eye(2) - A: the step left out
StepMatrixU(ar, dt, A) ==
    <<<<FSub(ar, R(1), A[1][1]), FSub(ar, R(0), A[1][2])>>,
      <<FSub(ar, R(0), A[2][1]), FSub(ar, R(1), A[2][2])>>>>

\* eye(2) + dt*A: the matrix of a forward step
StepMatrixM(ar, dt, A) ==
    <<<<FAdd(ar, R(1), FMul(ar, dt, A[1][1])), FMul(ar, dt, A[1][2])>>,
      <<FMul(ar, dt, A[2][1]), FAdd(ar, R(1), FMul(ar, dt, A[2][2]))>>>>

\* eye(2) - dt*A
StepMatrix(ar, dt, A) ==
    <<<<FSub(ar, R(1), FMul(ar, dt, A[1][1])), FSub(ar, R(0), FMul(ar, dt, A[1][2]))>>,
      <<FSub(ar, R(0), FMul(ar, dt, A[2][1])), FSub(ar, R(1), FMul(ar, dt, A[2][2]))>>>>

\* np.dot(Ai, x[i,:]): the source term dt*B left out
EulerUpdateM(ar, Ai, xi, dt, B) ==
    Dot2(ar, Ai, xi)

\* np.dot(Ai, x[i,:] + dt*B)
EulerUpdate(ar, Ai, xi, dt, B) ==
    Dot2(ar, Ai, <<FAdd(ar, xi[1], FMul(ar, dt, B[1])),
                   FAdd(ar, xi[2], FMul(ar, dt, B[2]))>>)

WrittenRowM(i) ==
    i

\* the row of x a pass of the loop writes: the one after the row it reads
WrittenRow(i) ==
    i + 1

InitSE15 ==
    /\ pc = "se_stoch"
    /\ \E a_ \in SEArgs \cup SEFastArgs :
         se = [pc |-> "running", args |-> a_, Rs |-> <<>>, A |-> <<>>, B |-> <<>>,
               x |-> <<>>, i |-> 0, updates |-> <<>>, D |-> <<>>]
    /\ cf = NoCall
    /\ err = NoErr
    /\ args = IdleArgs
    /\ log = <<>>
    /\ calls = <<>>
    /\ Deq = <<>> /\ D0 = R(0) /\ D0_cov = R(0)
    /\ p = <<>> /\ pcov = <<>> /\ D = <<>> /\ lamfunc = NoF
    /\ J = <<>> /\ D_std = <<>>
    /\ ret = "top"
    /\ jf = NoF /\ jt = <<>> /\ jp = <<>> /\ jeps = R(0) /\ ji = 0 /\ jJ = <<>>

\* lines 499-504: the registry lookup fails for an unregistered name
SE_Stoch ==
    /\ pc = "se_stoch"
    /\ IF se.args.he.iso_params \notin IsoParamNames
       THEN /\ err' = [type |-> "KeyError", check |-> "none",
                       msg |-> se.args.he.iso_params]
            /\ pc' = "raised"
            /\ UNCHANGED se
       ELSE /\ se' = [se EXCEPT !.Rs = SEStoch(se.args)]
            /\ pc' = "se_setup"
            /\ UNCHANGED err
    /\ UNCHANGED <<args, log, calls, Deq, D0, D0_cov, p, pcov, D, lamfunc, J, D_std>>
    /\ UNCHANGED jacvars
    /\ UNCHANGED cf

\* lines 507-536
SE_Setup ==
    /\ pc = "se_setup"
    /\ LET su == SESetup(se.args, se.Rs)
       IN  se' = [se EXCEPT !.A = su.A, !.B = su.B, !.x = su.x]
    /\ pc' = "se_loop"
    /\ UNCHANGED <<args, err, log, calls, Deq, D0, D0_cov, p, pcov, D, lamfunc, J,
                   D_std>>
    /\ UNCHANGED jacvars
    /\ UNCHANGED cf

\* one pass of the loop: for i in range(nt-1); inv raises LinAlgError on a
\* singular matrix
SE_Step ==
    /\ pc = "se_loop"
    /\ se.i < Len(se.args.t) - 1
    /\ LET ar == se.args.arith
           i == se.i + 1
           dt == FSub(ar, se.args.t[i + 1], se.args.t[i])
           Ai == Inv2(ar, StepMatrix(ar, dt, se.A))
       IN  IF ~Ai.ok
           THEN /\ err' = [type |-> "LinAlgError", check |-> "none",
                           msg |-> "Singular matrix"]
                /\ pc' = "raised"
                /\ UNCHANGED se
           ELSE /\ se' = [se EXCEPT
                            !.x[WrittenRow(i)] = EulerUpdate(ar, Ai.inv, se.x[i], dt, se.B),
                            !.i = i,
                            !.updates = Append(@, [from |-> i, to |-> WrittenRow(i),
                                                   dt |-> dt])]
                /\ UNCHANGED <<pc, err>>
    /\ UNCHANGED <<args, log, calls, Deq, D0, D0_cov, p, pcov, D, lamfunc, J, D_std>>
    /\ UNCHANGED jacvars
    /\ UNCHANGED cf

\* lines 547-553: D = 1000*(x[:,0] - 1)
SE_Finish ==
    /\ pc = "se_loop"
    /\ se.i >= Len(se.args.t) - 1
    /\ se' = [se EXCEPT !.D = [j \in 1..Len(se.x) |->
                                  FromPrime(se.args.arith, se.x[j][1])]]
    /\ pc' = "se_done"
    /\ UNCHANGED <<args, err, log, calls, Deq, D0, D0_cov, p, pcov, D, lamfunc, J,
                   D_std>>
    /\ UNCHANGED jacvars
    /\ UNCHANGED cf

NextSE15 ==
    \/ SE_Stoch
    \/ SE_Setup
    \/ SE_Step
    \/ SE_Finish

SpecSE15 == InitSE15 /\ [][NextSE15]_vars

---------------------------------------------------------------------------
(* geologic_history as a whole. *)

Next ==
    \/ GH_CheckLen
    \/ GH_CheckCalibration
    \/ GH_CheckRefFrame
    \/ GH_Deq
    \/ GH_Model
    \/ GH_CallJacobian
    \/ Jac_Step
    \/ Jac_Return
    \/ GH_Propagate

Spec == InitGH /\ [][Next]_vars

---------------------------------------------------------------------------
(* Properties of geologic_history. *)

\* the forward model that belongs to a model type
OwnForward(model) ==
    CASE model = "Hea14" -> "_ghHea14"
      [] model = "HH20" -> "_ghHH20"
      [] model = "PH12" -> "_ghPH12"
      [] model = "SE15" -> "_ghSE15"

LenBad == Len(args.T) # Len(args.t)
CalBad == args.calibration.ty = "str" /\ args.calibration.v \notin Calibrations
CalGood == args.calibration.ty = "str" /\ args.calibration.v \in Calibrations
RefBad == args.ref_frame.ty = "str" /\ args.ref_frame.v \notin RefFrames
RefGood == args.ref_frame.ty = "str" /\ args.ref_frame.v \in RefFrames

NumericalSteps ==
    {"calibration_equation", "forward_model", "jacobian", "propagate"}

\* C1: for each of the four model types, the function evaluated to produce D
\* and the function bound in the lambda handed to _Jacobian are that model
\* type's own forward model (SE15 is evaluated with _ghSE15, never _ghHH20).
C1_OwnForwardModel ==
    (args.ed.model \in ModelTypes /\ lamfunc.kind = "closure") =>
        /\ lamfunc.fn = OwnForward(args.ed.model)
        /\ \A i \in 1..Len(calls) : calls[i].fn = OwnForward(args.ed.model)

C3_TypeErrors ==
    (~LenBad /\ pc = "raised"
       /\ (args.calibration.ty # "str" \/ args.ref_frame.ty # "str")) =>
        err.type = "TypeError"

\* C4: the three input checks all complete before the calibration equation,
\* any forward-model evaluation and any Jacobian evaluation; if a check fails
\* none of these steps happens.
C4_EagerValidation ==
    /\ ((\E i \in 1..Len(log) : log[i] \in NumericalSteps) \/ calls # <<>>) =>
         /\ Len(log) >= 3
         /\ SubSeq(log, 1, 3) = <<"check_len", "check_calibration", "check_ref_frame">>
         /\ ~LenBad /\ CalGood /\ RefGood
         /\ \A i \in 1..3 : log[i] \notin NumericalSteps
    /\ err.check \in {"len", "calibration", "ref_frame"} =>
         /\ \A i \in 1..Len(log) : log[i] \notin NumericalSteps
         /\ calls = <<>> /\ Deq = <<>> /\ D = <<>> /\ J = <<>>

\* a run that passed the three checks and then did all the numerical steps
C4_Witness ==
    /\ pc = "done"
    /\ \A s \in NumericalSteps : \E i \in 4..Len(log) : log[i] = s
    /\ calls # <<>>

\* C5: in every branch the combined vector is the fitted parameters followed
\* by d0[0], and the combined covariance is the fitted covariance with a zero
\* row and column added, except the corner, which is d0_std[0] squared; both
\* have dimension k+1 and the matrix is symmetric when the fitted one is.
C5_Augmented ==
    (args.ed.model \in ModelTypes /\ p # <<>>) =>
        LET fit == BranchP(args.ed)
            cov == BranchCov(args.ed)
            k == Len(fit)
        IN  /\ Len(cov) = k /\ \A i \in 1..k : Len(cov[i]) = k
            /\ Len(p) = k + 1
            /\ SubSeq(p, 1, k) = fit
            /\ p[k + 1] = args.d0[1]
            /\ Len(pcov) = k + 1
            /\ \A i \in 1..(k + 1) : Len(pcov[i]) = k + 1
            /\ \A i \in 1..k : \A j \in 1..k : pcov[i][j] = cov[i][j]
            /\ \A i \in 1..k : pcov[i][k + 1] = R(0) /\ pcov[k + 1][i] = R(0)
            /\ pcov[k + 1][k + 1] = RMul(args.d0_std[1], args.d0_std[1])
            /\ (IsSymmetric(cov) => IsSymmetric(pcov))

\* the PH12 branch has combined a full covariance with a non-zero variance
C5_Witness ==
    /\ args.ed.model = "PH12" /\ pc = "done"
    /\ args.ed.Eparams_cov = CovFull(4)
    /\ pcov[3][3] = <<1, 4>> /\ Len(p) = 3

\* C6: with an all-zero fitted covariance and d0_std[0] = 0, the D_std
\* returned is all zero and has the length of t, for every model type.
C6_ZeroStd ==
    (pc = "done"
       /\ args.ed.Eparams_cov = CovZero(Len(args.ed.Eparams_cov))
       /\ args.d0_std[1] = R(0)) =>
        /\ Len(D_std) = Len(args.t)
        /\ \A j \in 1..Len(D_std) : D_std[j] = [kind |-> "num", val |-> R(0)]

\* a run that returned with zero covariance, zero d0_std[0] and a Jacobian
\* with no zero entry
C6_Witness ==
    /\ pc = "done"
    /\ args.ed.Eparams_cov = CovZero(Len(args.ed.Eparams_cov))
    /\ args.d0_std = <<R(0), R(1), R(1)>>
    /\ Len(args.t) = MaxNt
    /\ \A j \in 1..Len(J) : \A i \in 1..Len(J[j]) : J[j][i] # R(0)
    /\ Len(D_std) = MaxNt

---------------------------------------------------------------------------
(* Properties of _Jacobian. *)

\* C7: _Jacobian calls f exactly 2*len(p) times; the two calls of index k get
\* copies of p that differ from p only at entry k, by +eps and -eps; column k
\* of the result is their difference over 2*eps; p is unchanged on return.
C7_CentralDifferences ==
    (pc \in {"jac_loop", "jac_done"}) =>
        /\ Len(calls) = 2 * ji
        /\ pc = "jac_done" => Len(calls) = 2 * Len(p)
        /\ jp = p
        /\ Len(jJ) = Len(jt) /\ \A j \in 1..Len(jJ) : Len(jJ[j]) = Len(p)
        /\ \A k \in 1..ji :
             LET cp == calls[2 * k - 1].p
                 cm == calls[2 * k].p
             IN  /\ cp = [p EXCEPT ![k] = RAdd(p[k], jeps)]
                 /\ cm = [p EXCEPT ![k] = RSub(p[k], jeps)]
                 /\ \A j \in 1..Len(jt) :
                      jJ[j][k] = RDiv(RSub(EvalF(jf, jt, cp)[j], EvalF(jf, jt, cm)[j]),
                                      RMul(R(2), jeps))

\* _Jacobian has returned for a function not linear in p, with the most
\* parameters and time points
C7_Witness ==
    /\ pc = "jac_done" /\ jf.fn = "quad"
    /\ Len(p) = MaxNp /\ Len(jt) = MaxNt /\ Len(calls) = 2 * MaxNp
    /\ p[1] # R(0)

\* C8: for f(t,p) = sum_i p_i * t^i the Jacobian returned is the analytic
\* derivative, entry [j,i] = t_j^i, whatever p and eps > 0 (exact arithmetic).
C8_LinearExact ==
    (pc = "jac_done" /\ jf.fn = "poly") =>
        \A j \in 1..Len(jt) : \A i \in 1..Len(p) : jJ[j][i] = RPow(jt[j], i - 1)

\* the Jacobian of the polynomial has been returned for the default step and
\* a non-zero p at a time point other than 0 and 1
C8_Witness ==
    /\ pc = "jac_done" /\ jf.fn = "poly" /\ jeps = EpsDefault
    /\ Len(p) = MaxNp /\ p[MaxNp] = <<3, 2>>
    /\ \E j \in 1..Len(jt) : jt[j] = R(3) /\ jJ[j][2] = R(3)

---------------------------------------------------------------------------
(* _fSE15: the integration loop. *)

\* the step of pass k of the loop
SEDt(k) ==
    FSub(se.args.arith, se.args.t[k + 1], se.args.t[k])

\* the inverse pass k of the loop asks for
SEStepInv(k) ==
    Inv2(se.args.arith, StepMatrix(se.args.arith, SEDt(k), se.A))

\* the loop has been entered
SEInLoop ==
    pc \in {"se_loop", "se_done"} \/ (pc = "raised" /\ se.A # <<>>)

\* the passes taken so far are passes 1, 2, ... in order, pass k reads row k
\* and the step t[k+1] - t[k] and writes row k+1 only; row 1 keeps the
\* initial state and the rows not yet reached keep their zeros
SEPasses ==
    SEInLoop =>
        /\ Len(se.updates) = se.i
        /\ \A k \in 1..se.i :
             /\ se.updates[k] = [from |-> k, to |-> k + 1, dt |-> SEDt(k)]
             /\ se.x[k + 1] = EulerUpdate(se.args.arith, SEStepInv(k).inv, se.x[k],
                                          SEDt(k), se.B)
        /\ \A k \in (se.i + 2)..Len(se.x) : se.x[k] = <<R(0), R(0)>>
        /\ se.x[1] = <<ToPrime(se.args.arith, se.args.D0),
                       FMul(se.args.arith, NpExp(se.args.arith, se.args.lnp0peq),
                            se.args.Dppeq)>>

\* a finished integration over nt time points took nt - 1 passes
SEAllPasses ==
    pc = "se_done" => Len(se.updates) = Len(se.args.t) - 1

SESinglePoint ==
    pc = "se_done" /\ Len(se.args.t) = 1

\* C9 as stated: nt - 1 backward-Euler updates in increasing index order, one
\* per consecutive pair, each from x[i] and dt_i alone, x[0] fixed; and for a
\* single time point no update is taken and the result is exactly [D0].
C9_ExactlyD0 ==
    /\ SEPasses
    /\ SEAllPasses
    /\ SESinglePoint => se.updates = <<>> /\ se.D = <<se.args.D0>>

\* C9, amended: nt - 1 backward-Euler updates in increasing index order, one
\* per consecutive pair, each from x[i] and dt_i alone, x[0] fixed; for a
\* single time point no update is taken and the result is the one value
\* 1000*((D0/1000 + 1) - 1), which is D0 when the arithmetic is exact.
C9_BackwardEuler ==
    /\ SEPasses
    /\ SEAllPasses
    /\ SESinglePoint =>
         /\ se.updates = <<>>
         /\ se.D = <<FromPrime(se.args.arith, ToPrime(se.args.arith, se.args.D0))>>
         /\ se.args.arith = "exact" => se.D = <<se.args.D0>>

\* an integration in floating point that has taken its two passes and
\* converted the three rows of x
C9_Witness ==
    /\ pc = "se_done"
    /\ se.args.arith = "float"
    /\ Len(se.updates) >= 2
    /\ Len(se.D) = Len(se.updates) + 1

\* the loop stopped at a pass whose matrix I - dt*A is singular
SESingularStop ==
    /\ pc = "raised"
    /\ se.A # <<>>
    /\ ~SEStepInv(se.i + 1).ok

\* C10: a singular matrix I - dt*A at some step ends _fSE15 in a
\* NumericalError, and the linear-algebra error of the inversion does not
\* reach the caller.
C10_NumericalError ==
    SESingularStop => err.type = "NumericalError" /\ err.type # "LinAlgError"

---------------------------------------------------------------------------
(* The builders of calc_funcs.py called on their own: _calc_R. *)

\* largest n of _calc_R
MaxN == 4

\* every variable of geologic_history, _Jacobian and _fSE15 at rest
OthersIdle ==
    /\ err = NoErr
    /\ args = IdleArgs
    /\ log = <<>>
    /\ calls = <<>>
    /\ Deq = <<>> /\ D0 = R(0) /\ D0_cov = R(0)
    /\ p = <<>> /\ pcov = <<>> /\ D = <<>> /\ lamfunc = NoF
    /\ J = <<>> /\ D_std = <<>>
    /\ ret = "top"
    /\ jf = NoF /\ jt = <<>> /\ jp = <<>> /\ jeps = R(0) /\ ji = 0 /\ jJ = <<>>
    /\ se = NoSE

\* a Python index k into an axis of length n, counted from 0
PyIdx(k, n) ==
    IF k < 0 THEN k + n ELSE k

\* M[i, j] = v, indices counted from 0
SetEntry(M, i, j, v) ==
    [M EXCEPT ![i + 1][j + 1] = v]

\* row[a:b] = c in row i of M, indices counted from 0
SetRowSlice(M, i, a, b, c) ==
    [M EXCEPT ![i + 1] = [j \in 1..Len(@) |->
                             IF a < j /\ j <= b THEN c[j - a] ELSE @[j]]]

DiffColsM(i) ==
    <<i, i + 2>>

\* the slice i - 1:i + 1 of line 126
DiffCols(i) ==
    <<i - 1, i + 1>>

\* lines 124-126: for i, row in enumerate(R)
RECURSIVE CalcRRows(_, _, _)
CalcRRows(M, n, i) ==
    IF i > n THEN M
    ELSE CalcRRows(IF i # 0 /\ i # n
                   THEN SetRowSlice(M, i, DiffCols(i)[1], DiffCols(i)[2],
                                    <<R(-1), R(1)>>)
                   ELSE M, n, i + 1)

\* _calc_R(n) for n >= 1
calc_R(n) ==
    CalcRRows(SetEntry(SetEntry(ZeroMat(n + 1, n), 0, 0, R(1)),
                       PyIdx(-1, n + 1), PyIdx(-1, n), R(-1)), n, 0)

\* R[0, 0] = 1.0 on an array with no column is an IndexError
Call_calc_R ==
    /\ pc = "cf_call"
    /\ cf.fn = "_calc_R"
    /\ IF cf.n = 0
       THEN /\ err' = [type |-> "IndexError", check |-> "none",
                       msg |-> "index 0 is out of bounds for axis 1 with size 0"]
            /\ pc' = "raised"
            /\ UNCHANGED cf
       ELSE /\ cf' = [cf EXCEPT !.out = calc_R(cf.n)]
            /\ pc' = "cf_done"
            /\ UNCHANGED err
    /\ UNCHANGED <<args, log, calls, Deq, D0, D0_cov, p, pcov, D, lamfunc, J, D_std,
                   se>>
    /\ UNCHANGED jacvars

CalcRCalls ==
    \E n \in 0..MaxN : cf = [fn |-> "_calc_R", n |-> n, out |-> <<>>]

\* the entry the claim gives R[i, j], indices counted from 0
SmoothingEntry(n, i, j) ==
    IF i = 0 THEN (IF j = 0 THEN R(1) ELSE R(0))
    ELSE IF i = n THEN (IF j = n - 1 THEN R(-1) ELSE R(0))
    ELSE IF j = i - 1 THEN R(-1)
    ELSE IF j = i THEN R(1)
    ELSE R(0)

\* C11: for n >= 1, _calc_R(n) is (n+1)-by-n with R[0,0] = 1, R[n,n-1] = -1,
\* -1 and +1 at columns i-1 and i of every interior row i, 0 elsewhere, so
\* that every interior row sums to 0.
C11_SmoothingMatrix ==
    (pc = "cf_done" /\ cf.fn = "_calc_R") =>
        /\ Len(cf.out) = cf.n + 1
        /\ \A i \in 0..cf.n :
             /\ Len(cf.out[i + 1]) = cf.n
             /\ \A j \in 0..(cf.n - 1) :
                  cf.out[i + 1][j + 1] = SmoothingEntry(cf.n, i, j)
        /\ \A i \in 1..(cf.n - 1) : RSum(cf.out[i + 1]) = R(0)

\* a matrix with interior rows has been built
C11_Witness ==
    /\ pc = "cf_done"
    /\ cf.fn = "_calc_R"
    /\ cf.n >= 3
    /\ cf.out[2] # cf.out[3]

---------------------------------------------------------------------------
(* _calc_A. *)

\* most lambda nodes of _calc_A
MaxNlam == 3

\* b^k
RECURSIVE IPow(_, _)
IPow(b, k) ==
    IF k = 0 THEN 1 ELSE b * IPow(b, k - 1)

\* n evenly spaced nodes ln(1), ln(b), ln(b^2), ...
LamArr(b, n) ==
    [j \in 1..n |-> Ln(R(IPow(b, j - 1)))]

\* ln(x) - ln(y)
LnSub(lx, ly) ==
    Ln(RDiv(lx.ln, ly.ln))

\* exp(x) * dlam for a rational x, kept as the pair of x and dlam
ExpTimes(x, dlam) ==
    [exp |-> x, dlam |-> dlam]

\* line 79: lam[1] - lam[0]; lam[1] exists when there are two nodes
HasDlam(lam) ==
    Len(lam) >= 2

DLam(lam) ==
    LnSub(lam[2], lam[1])

\* lines 82-86: A = np.exp(- np.exp(lam_mat) * t_mat) * dlam
calc_A(t, lam) ==
    [i \in 1..Len(t) |->
        [j \in 1..Len(lam) |->
            ExpTimes(RNeg(RMul(NpExp("exact", lam[j]), t[i])), DLam(lam))]]

Call_calc_A ==
    /\ pc = "cf_call"
    /\ cf.fn = "_calc_A"
    /\ IF ~HasDlam(cf.lam)
       THEN /\ err' = [type |-> "IndexError", check |-> "none",
                       msg |-> "index 1 is out of bounds for axis 0"]
            /\ pc' = "raised"
            /\ UNCHANGED cf
       ELSE /\ cf' = [cf EXCEPT !.out = calc_A(cf.t, cf.lam)]
            /\ pc' = "cf_done"
            /\ UNCHANGED err
    /\ UNCHANGED <<args, log, calls, Deq, D0, D0_cov, p, pcov, D, lamfunc, J, D_std,
                   se>>
    /\ UNCHANGED jacvars

CalcACalls ==
    \E nt \in 1..(MaxNt + 1), b \in {2, 3}, nlam \in 0..MaxNlam :
        cf = [fn |-> "_calc_A", t |-> TimeArr(nt), lam |-> LamArr(b, nlam),
              out |-> <<>>]

\* _calc_A has been called with one lambda node and has ended
CalcASingleNode ==
    /\ cf.fn = "_calc_A"
    /\ Len(cf.lam) = 1
    /\ pc # "cf_call"

\* C12: _calc_A(t, lam) with a single lambda node does not fail and returns
\* an nt-by-1 matrix holding the scalar curve exp(-exp(lam[0]) * t_i) * dlam.
C12_SingleNode ==
    CalcASingleNode =>
        /\ pc = "cf_done"
        /\ err = NoErr
        /\ Len(cf.out) = Len(cf.t)
        /\ \A i \in 1..Len(cf.t) :
             /\ Len(cf.out[i]) = 1
             /\ cf.out[i][1].exp = RNeg(RMul(NpExp("exact", cf.lam[1]), cf.t[i]))

---------------------------------------------------------------------------
(* _calc_R_stoch. *)

\* d47_isoparams as the dictionary the module holds
Registry ==
    [n \in IsoParamNames |-> IsoParams(n)]

RegistryGetM(reg, key) ==
    [found |-> key \in DOMAIN reg,
     reg |-> [k \in DOMAIN reg \cup {key} |->
                 IF k \in DOMAIN reg THEN reg[k] ELSE <<>>]]

\* line 167: d47_isoparams[iso_params], a read of the dictionary
RegistryGet(reg, key) ==
    [found |-> key \in DOMAIN reg, reg |-> reg]

Call_calc_R_stoch ==
    /\ pc = "cf_call"
    /\ cf.fn = "_calc_R_stoch"
    /\ LET g == RegistryGet(cf.registry, cf.iso_params)
       IN  IF ~g.found
           THEN /\ err' = [type |-> "KeyError", check |-> "none",
                           msg |-> cf.iso_params]
                /\ pc' = "raised"
                /\ cf' = [cf EXCEPT !.registry = g.reg]
           ELSE /\ cf' = [cf EXCEPT !.registry = g.reg,
                                    !.out = StochAll(cf.arith, cf.d13C, cf.d18O,
                                                     cf.iso_params)]
                /\ pc' = "cf_done"
                /\ UNCHANGED err
    /\ UNCHANGED <<args, log, calls, Deq, D0, D0_cov, p, pcov, D, lamfunc, J, D_std,
                   se>>
    /\ UNCHANGED jacvars

\* compositions above, at and below -1000 permil; the 18O ones make
\* R18/R18_vpdb the square of a rational, zero or negative
D13Cs ==
    {R(0), R(-500), R(-1000), R(-2000)}

D18Os ==
    {R(0), R(-750), R(-1000), R(-2000)}

CalcRStochCalls ==
    \E d13C \in D13Cs, d18O \in D18Os, name \in IsoParamNames \cup {"Craig"},
       ar \in {"exact", "float"} :
        cf = [fn |-> "_calc_R_stoch", arith |-> ar, d13C |-> d13C, d18O |-> d18O,
              iso_params |-> name, registry |-> Registry,
              out |-> [f |-> <<>>, R |-> <<>>]]

InitCalc ==
    /\ pc = "cf_call"
    /\ \/ CalcRCalls
       \/ CalcACalls
       \/ CalcRStochCalls
    /\ OthersIdle

NextCalc ==
    \/ Call_calc_R
    \/ Call_calc_A
    \/ Call_calc_R_stoch

SpecCalc == InitCalc /\ [][NextCalc]_vars

---------------------------------------------------------------------------
(* Properties of _calc_R_stoch. *)

StochDone ==
    pc = "cf_done" /\ cf.fn = "_calc_R_stoch"

IsPos(x) ==
    ~IsNaN(x) /\ x[1] > 0

\* the rounding allowed on a sum of fractions: nothing in exact arithmetic,
\* two units in the last place of 1 in floating point
SumTol(ar) ==
    IF ar = "exact" THEN R(0) ELSE <<4, Pow2(MantBits)>>

SumsToOne(ar, xs) ==
    /\ \A k \in DOMAIN xs : ~IsNaN(xs[k])
    /\ RLe(RSub(FSum(ar, xs), R(1)), SumTol(ar))
    /\ RLe(RSub(R(1), FSum(ar, xs)), SumTol(ar))

StochSums ==
    /\ SumsToOne(cf.arith, <<cf.out.f[1], cf.out.f[2]>>)
    /\ SumsToOne(cf.arith, <<cf.out.f[3], cf.out.f[4], cf.out.f[5]>>)

---------------------------------------------------------------------------
(* The registry lookup, from _calc_R_stoch called directly and from _fSE15. *)

InitKey ==
    \/ /\ pc = "cf_call"
       /\ CalcRStochCalls
       /\ OthersIdle
    \/ InitSE15

NextKey ==
    \/ Call_calc_R_stoch
    \/ NextSE15

SpecKey == InitKey /\ [][NextKey]_vars

StochCalled ==
    cf.fn = "_calc_R_stoch" /\ pc # "cf_call"

SECalled ==
    se.pc = "running" /\ pc # "se_stoch"

\* C14: _calc_R_stoch with a name that is not in the registry fails with KeyError
\* before any ratio is computed and leaves the registry as it was; _fSE15 with
\* an experiment carrying such a name fails with KeyError before any
\* integration step.
C14_KeyNotFound ==
    /\ (StochCalled /\ cf.iso_params \notin DOMAIN Registry) =>
           /\ pc = "raised"
           /\ err.type = "KeyError"
           /\ cf.out = [f |-> <<>>, R |-> <<>>]
    /\ cf.fn = "_calc_R_stoch" => cf.registry = Registry
    /\ (SECalled /\ se.args.he.iso_params \notin DOMAIN Registry) =>
           /\ pc = "raised"
           /\ err.type = "KeyError"
           /\ se.Rs = <<>>
           /\ se.x = <<>>
           /\ se.i = 0
           /\ se.updates = <<>>
           /\ se.D = <<>>

C14_Witness ==
    /\ StochCalled
    /\ cf.iso_params = "Craig"
    /\ pc = "raised"
    /\ err.type = "KeyError"
    /\ cf.registry = Registry

C14_WitnessSE ==
    /\ SECalled
    /\ se.args.he.iso_params = "Craig"
    /\ pc = "raised"
    /\ err.type = "KeyError"

---------------------------------------------------------------------------
(* Properties of the HH20 branch of geologic_history. *)

\* the number of lambda nodes _ghHH20 works with for a given nlam argument
EffNlam(nl) ==
    IF nl = <<>> THEN GhHH20DefaultNlam ELSE nl[1]

HH20Built ==
    args.ed.model = "HH20" /\ lamfunc.kind = "closure"

\* C15: for HH20 the nlam passed to geologic_history is the number of lambda
\* nodes of the call that computes D and of the closure handed to _Jacobian,
\* and D is that closure evaluated at (t, p).
C15_SameNlam ==
    HH20Built =>
        /\ \A i \in 1..Len(calls) :
               calls[i].site = "D" => EffNlam(calls[i].nlam) = args.nlam
        /\ EffNlam(lamfunc.nlam) = args.nlam
        /\ D = EvalF(lamfunc, args.t, p)

---------------------------------------------------------------------------
(* timedata.py: TimeData.__init__(self, t, T, fi, fi_std, T_std). *)

MaxNi == 2

\* an argument of the constructor; v holds its elements as rows, a scalar
\* and a 1d array as one row
TdNone ==
    [ty |-> "None", ndim |-> 0, v |-> <<>>]

TdScalar(x) ==
    [ty |-> "scalar", ndim |-> 0, v |-> <<<<x>>>>]

TdArr1(a) ==
    [ty |-> "array", ndim |-> 1, v |-> <<a>>]

TdArr2(m) ==
    [ty |-> "array", ndim |-> 2, v |-> m]

\* np.shape(x): () for None and for a scalar
NpShape(x) ==
    IF x.ndim = 0 THEN <<>>
    ELSE IF x.ndim = 1 THEN <<Len(x.v[1])>>
    ELSE <<Len(x.v), Len(x.v[1])>>

\* len(x) of an array
PyLen(x) ==
    NpShape(x)[1]

\* the elements of an array, in one sequence
TdFlat(x) ==
    Flatten(x.v)

\* np.max(fi) > 1 or np.min(fi) < 0
OutOfUnit(x) ==
    \E k \in 1..Len(TdFlat(x)) :
        RLt(R(1), TdFlat(x)[k]) \/ RLt(TdFlat(x)[k], R(0))

\* assert_len(data, n): data as an array of length n; a scalar is repeated n
\* times, an array of another length is an ArrayError
AssertLen(data, n) ==
    IF data.ty = "scalar"
    THEN [ok |-> TRUE, val |-> TdArr1([k \in 1..n |-> data.v[1][1]])]
    ELSE [ok |-> PyLen(data) = n, val |-> data]

\* an instance with no attribute yet
NoAttrs ==
    [k \in {} |-> TdNone]

\* self.k = v
SetAttr(self, k, v) ==
    [f \in DOMAIN self \cup {k} |-> IF f = k THEN v ELSE self[f]]

ConstMat(nr, nc, x) ==
    [i \in 1..nr |-> [j \in 1..nc |-> x]]

ConstArr(n, x) ==
    [i \in 1..n |-> x]

TdTs ==
    {TdArr1(TimeArr(n)) : n \in 1..MaxNt}

TdTemps ==
    {TdScalar(R(300))} \cup {TdArr1(TempArr(n)) : n \in 1..MaxNt}

TdTstds ==
    {TdNone, TdScalar(R(1))} \cup {TdArr1(ConstArr(n, R(1))) : n \in 1..MaxNt}

TdFis ==
    {TdNone, TdArr1(ConstArr(MaxNi, <<1, 2>>))}
        \cup {TdArr2(ConstMat(n, ni, x)) :
                 n \in 1..MaxNt, ni \in 1..MaxNi, x \in {<<1, 2>>, R(2), R(-1)}}

TdFiStds ==
    {TdNone, TdArr1(ConstArr(MaxNi, <<1, 10>>))}
        \cup {TdArr2(ConstMat(n, ni, <<1, 10>>)) : n \in 1..MaxNt, ni \in 1..MaxNi}

InitTD ==
    /\ pc = "td_shape"
    /\ \E t \in TdTs, T \in TdTemps, Ts \in TdTstds, fi \in TdFis, fs \in TdFiStds :
         cf = [fn |-> "TimeData.__init__", t |-> t, T |-> T, fi |-> fi,
               fi_std |-> fs, T_std |-> Ts, nt |-> 0, ni |-> 0, self |-> NoAttrs]
    /\ OthersIdle

TdRaise(type, msg) ==
    /\ err' = [type |-> type, check |-> "none", msg |-> msg]
    /\ pc' = "raised"

TdIdle ==
    /\ UNCHANGED <<args, log, calls, Deq, D0, D0_cov, p, pcov, D, lamfunc, J, D_std,
                   se>>
    /\ UNCHANGED jacvars

\* the fi given by the caller, as reaches np.shape at line 78 with no test
\* of fi against None before it
ShapeArg(fi) ==
    fi

\* lines 77-80: nt = len(t); _, ni = np.shape(fi); self.nt; self.ni
TD_Shape ==
    /\ pc = "td_shape"
    /\ cf.fn = "TimeData.__init__"
    /\ IF Len(NpShape(ShapeArg(cf.fi))) # 2
       THEN /\ TdRaise("ValueError", "not enough values to unpack")
            /\ UNCHANGED cf
       ELSE /\ cf' = [cf EXCEPT !.nt = PyLen(cf.t),
                                !.ni = NpShape(cf.fi)[2],
                                !.self = SetAttr(SetAttr(cf.self, "nt",
                                                         TdScalar(R(PyLen(cf.t)))),
                                                 "ni", TdScalar(R(NpShape(cf.fi)[2])))]
            /\ pc' = "td_store"
            /\ UNCHANGED err
    /\ TdIdle

\* lines 82-88: self.t, self.T and, when T_std is given, self.T_std
TD_Store ==
    /\ pc = "td_store"
    /\ IF ~AssertLen(cf.T, cf.nt).ok
           \/ (cf.T_std # TdNone /\ ~AssertLen(cf.T_std, cf.nt).ok)
       THEN /\ TdRaise("ArrayError", "length")
            /\ UNCHANGED cf
       ELSE /\ cf' = [cf EXCEPT !.self =
                        IF cf.T_std = TdNone
                        THEN SetAttr(SetAttr(cf.self, "t", AssertLen(cf.t, cf.nt).val),
                                     "T", AssertLen(cf.T, cf.nt).val)
                        ELSE SetAttr(SetAttr(SetAttr(cf.self, "t",
                                                     AssertLen(cf.t, cf.nt).val),
                                             "T", AssertLen(cf.T, cf.nt).val),
                                     "T_std", AssertLen(cf.T_std, cf.nt).val)]
            /\ pc' = "td_fi"
            /\ UNCHANGED err
    /\ TdIdle

\* lines 91-98: the range check on fi and self.fi
TD_Fi ==
    /\ pc = "td_fi"
    /\ IF cf.fi = TdNone
       THEN /\ pc' = "td_done"
            /\ UNCHANGED <<cf, err>>
       ELSE IF OutOfUnit(cf.fi)
       THEN /\ TdRaise("ArrayError", "fi must remain between 0 and 1")
            /\ UNCHANGED cf
       ELSE IF ~AssertLen(cf.fi, cf.nt).ok
       THEN /\ TdRaise("ArrayError", "length")
            /\ UNCHANGED cf
       ELSE /\ cf' = [cf EXCEPT !.self =
                        SetAttr(cf.self, "fi", AssertLen(cf.fi, cf.nt).val)]
            /\ pc' = "td_fistd"
            /\ UNCHANGED err
    /\ TdIdle

\* lines 101-110: the shape check on fi_std; line 110 reads the name fistd,
\* which is bound nowhere
TD_FiStd ==
    /\ pc = "td_fistd"
    /\ IF cf.fi_std = TdNone
       THEN /\ pc' = "td_done"
            /\ UNCHANGED err
       ELSE IF Len(NpShape(cf.fi_std)) # 2
       THEN TdRaise("ValueError", "not enough values to unpack")
       ELSE IF NpShape(cf.fi_std)[1] # cf.nt \/ NpShape(cf.fi_std)[2] # cf.ni
       THEN TdRaise("ArrayError", "fi_std must have same shape as fi")
       ELSE TdRaise("NameError", "name 'fistd' is not defined")
    /\ UNCHANGED cf
    /\ TdIdle

NextTD ==
    \/ TD_Shape
    \/ TD_Store
    \/ TD_Fi
    \/ TD_FiStd

SpecTD == InitTD /\ [][NextTD]_vars

\* t, T and T_std that the constructor accepts
TdTimesValid ==
    /\ AssertLen(cf.T, PyLen(cf.t)).ok
    /\ cf.T_std = TdNone \/ AssertLen(cf.T_std, PyLen(cf.t)).ok

\* C16: constructing a TimeData with fi = None succeeds: no error is raised, and
\* the finished instance stores nt, t and T and no fi; the fi checks are
\* applied only when fi is not None.
C16_FiNoneSucceeds ==
    (cf.fn = "TimeData.__init__" /\ cf.fi = TdNone /\ TdTimesValid) =>
        /\ pc # "raised"
        /\ pc = "td_done" =>
               /\ {"nt", "t", "T"} \subseteq DOMAIN cf.self
               /\ "fi" \notin DOMAIN cf.self

---------------------------------------------------------------------------
(* _fSE15: the trajectory and the equilibrium point. *)

\* a = k1f, b = k1f*Dp47eq/Dppeq and d = kdp*Dppeq are positive; every Dppeq
\* of SEArgs is positive, so d has the sign of c = kdp
SEPositiveRates ==
    /\ RLt(R(0), RNeg(se.A[1][1]))
    /\ RLt(R(0), se.A[1][2])
    /\ RLt(R(0), se.B[2])

SEIncreasing ==
    \A k \in 1..(Len(se.args.t) - 1) : RLt(se.args.t[k], se.args.t[k + 1])

\* [Deq/1000 + 1, Dppeq]
SEEquilibrium ==
    <<ToPrime(se.args.arith, se.args.Deq), se.args.Dppeq>>

\* x <= y and x < y by the sign of x - y
QLe(x, y) ==
    RSub(x, y)[1] <= 0

QLt(x, y) ==
    RSub(x, y)[1] < 0

\* y is between x and e: from x it moved toward e, not away and not past
Toward(x, y, e) ==
    \/ QLe(x, y) /\ QLe(y, e)
    \/ QLe(e, y) /\ QLe(y, x)

\* |x[1] - e[1]| + |x[2] - e[2]|
RAbs(q) ==
    IF q[1] < 0 THEN RNeg(q) ELSE q

Distance(x, e) ==
    RAdd(RAbs(RSub(x[1], e[1])), RAbs(RSub(x[2], e[2])))

SEPhysical ==
    SEInLoop /\ se.A # <<>> /\ SEPositiveRates /\ SEIncreasing

\* C17 as stated: with strictly increasing t and positive rate constants, at
\* every step each component of [D47', Dpp'] moves toward its equilibrium
\* value [Deq/1000 + 1, Dppeq], never away from it and never past it.
C17_EachComponentToward ==
    SEPhysical =>
        \A k \in 1..se.i, j \in 1..2 :
            Toward(se.x[k][j], se.x[k + 1][j], SEEquilibrium[j])

\* C17 amended: with strictly increasing t and positive rate constants, in
\* exact arithmetic the summed distance |D47' - (Deq/1000 + 1)| +
\* |Dpp' - Dppeq| of the state from the equilibrium point never increases from
\* one step to the next, and it decreases while the state is off the point.
C17_DistanceNeverGrows ==
    (SEPhysical /\ se.args.arith = "exact") =>
        \A k \in 1..se.i :
            /\ QLe(Distance(se.x[k + 1], SEEquilibrium),
                   Distance(se.x[k], SEEquilibrium))
            /\ se.x[k] # SEEquilibrium =>
                   QLt(Distance(se.x[k + 1], SEEquilibrium),
                       Distance(se.x[k], SEEquilibrium))

\* two steps taken in exact arithmetic, in the first of which Dpp' left its
\* equilibrium value while the summed distance went down
C17_Witness ==
    /\ SEPhysical
    /\ se.args.arith = "exact"
    /\ se.i >= 2
    /\ se.x[1][2] = SEEquilibrium[2]
    /\ se.x[2][2] # SEEquilibrium[2]
    /\ QLt(Distance(se.x[2], SEEquilibrium), Distance(se.x[1], SEEquilibrium))

---------------------------------------------------------------------------
(* _fSE15: the determinant of I - dt*A. *)

Det2(M) ==
    RSub(RMul(M[1][1], M[2][2]), RMul(M[1][2], M[2][1]))

\* the matrix pass k of the loop inverts
SEStepMatrix(k) ==
    StepMatrix(se.args.arith, SEDt(k), se.A)

\* 1 + dt*(a+b+c) + dt^2*a*c with a = -A[0,0], a+b+c = -A[0,0] - A[1,1] and
\* c = -A[1,1] - A[0,1]
DetFormula(dt, A) ==
    RAdd(RAdd(R(1), RMul(dt, RSub(RNeg(A[1][1]), A[2][2]))),
         RMul(RMul(dt, dt), RMul(RNeg(A[1][1]), RSub(RNeg(A[2][2]), A[1][2]))))

\* the passes taken so far and, when the loop stopped on an inversion, the
\* pass that stopped it
SEPassesTried ==
    IF pc = "raised" THEN 1..(se.i + 1) ELSE 1..se.i

SENonNegativeSteps ==
    \A k \in 1..(Len(se.args.t) - 1) : RLe(se.args.t[k], se.args.t[k + 1])

\* 1 + dt*a is computed as dt*a: the unit is lost to rounding
SEUnitAbsorbed(k) ==
    SEStepMatrix(k)[1][1] = FMul(se.args.arith, SEDt(k), RNeg(se.A[1][1]))

\* C18 as stated: with a, b, c positive and dt >= 0 the matrix I - dt*A has
\* determinant 1 + dt*(a+b+c) + dt^2*a*c >= 1 and is never singular.
C18_NeverSingular ==
    (SEInLoop /\ se.A # <<>> /\ SEPositiveRates /\ SENonNegativeSteps) =>
        /\ ~SESingularStop
        /\ \A k \in SEPassesTried : QLe(R(1), Det2(SEStepMatrix(k)))

\* C18 amended: with a, b, c positive and dt >= 0, in exact arithmetic the
\* matrix I - dt*A has determinant 1 + dt*(a+b+c) + dt^2*a*c >= 1 and is never
\* singular; a singular matrix is reached only with a negative step, a
\* non-positive b or c, or, in floating point, a dt*a so large that
\* 1 + dt*a rounds to dt*a.
C18_SingularOnlyIf ==
    (SEInLoop /\ se.A # <<>>) =>
        /\ (se.args.arith = "exact" /\ SEPositiveRates /\ SENonNegativeSteps) =>
               /\ ~SESingularStop
               /\ \A k \in SEPassesTried :
                      /\ Det2(SEStepMatrix(k)) = DetFormula(SEDt(k), se.A)
                      /\ QLe(R(1), Det2(SEStepMatrix(k)))
        /\ SESingularStop =>
               \/ ~SENonNegativeSteps
               \/ ~SEPositiveRates
               \/ se.args.arith = "float" /\ SEUnitAbsorbed(se.i + 1)

\* two passes in exact arithmetic with positive rates, each with a
\* determinant above 1
C18_Witness ==
    /\ SEInLoop
    /\ se.args.arith = "exact"
    /\ SEPositiveRates
    /\ SENonNegativeSteps
    /\ se.i >= 2
    /\ \A k \in 1..se.i : QLt(R(1), Det2(SEStepMatrix(k)))

\* the loop stopped on a singular matrix with positive rates and a positive
\* step, in floating point
C18_WitnessFloat ==
    /\ SESingularStop
    /\ SEPositiveRates
    /\ SEIncreasing

---------------------------------------------------------------------------
(* _fSE15: a run that starts at the equilibrium point. *)

\* D0 = Deq and lnp0peq = 0
SEStartsAtEquilibrium ==
    se.args.D0 = se.args.Deq /\ se.args.lnp0peq = Ln(R(1))

\* C19 as stated: when D0 = Deq and lnp0peq = 0 every update leaves the state
\* where it was, x[i+1] = x[i], and the returned curve is constant and equal
\* to D0.
C19_FixedPointKept ==
    (SEInLoop /\ se.A # <<>> /\ SEStartsAtEquilibrium) =>
        /\ \A k \in 1..se.i : se.x[k + 1] = se.x[k]
        /\ pc = "se_done" => \A j \in 1..Len(se.D) : se.D[j] = se.args.D0

\* C19 amended: when D0 = Deq and lnp0peq = 0 the state starts at
\* [Deq/1000 + 1, Dppeq]; in exact arithmetic every update the loop takes
\* leaves it there and the returned curve is constant and equal to D0.
C19_FixedPointExact ==
    (SEInLoop /\ se.A # <<>> /\ SEStartsAtEquilibrium) =>
        /\ se.x[1] = SEEquilibrium
        /\ se.args.arith = "exact" =>
               /\ \A k \in 1..se.i : se.x[k + 1] = se.x[k]
               /\ pc = "se_done" => \A j \in 1..Len(se.D) : se.D[j] = se.args.D0

C19_Witness ==
    /\ pc = "se_done"
    /\ SEStartsAtEquilibrium
    /\ se.args.arith = "exact"
    /\ se.i >= 2
    /\ se.D = [j \in 1..3 |-> se.args.D0]

---------------------------------------------------------------------------
(* geologic_history with a descriptor of an unknown model type. *)

\* the four model tags the if/elif chain of geologic_history names
KnownTags ==
    {"Hea14", "HH20", "PH12", "SE15"}

UnknownTag ==
    args.ed.model \notin KnownTags

GHValidInputs ==
    ~LenBad /\ CalGood /\ RefGood

EntryChecks ==
    {"len", "calibration", "ref_frame"}

\* C20: with valid t, T, calibration and ref_frame and a model tag that is not
\* one of the four, geologic_history never returns (D, D_std): it ends in an
\* error, raised only after the calibration equation has been evaluated over
\* T; the model tag is not among the inputs checked at entry.
C20_UnknownModelTag ==
    UnknownTag =>
        /\ pc # "done" /\ pc # "gh_prop" /\ ret = "gh"
        /\ D = <<>> /\ D_std = <<>> /\ J = <<>>
        /\ (pc = "raised" /\ err.type # "UnboundLocalError") =>
               err.check \in EntryChecks
        /\ GHValidInputs =>
               /\ pc \in {"raised"} \cup {GHOrder[k] : k \in 1..Len(GHOrder)}
               /\ pc = "raised" =>
                      /\ err.type = "UnboundLocalError"
                      /\ \E k \in 1..Len(log) : log[k] = "calibration_equation"
                      /\ Deq = CalEq(args.calibration.v, args.ref_frame.v, args.T)

C20_Witness ==
    /\ UnknownTag
    /\ GHValidInputs
    /\ pc = "raised"
    /\ err.type = "UnboundLocalError"
    /\ Deq # <<>>

=========================================================================
